---- MODULE Spec2Model ----
(***************************************************************************)
(* Valorador de proyectos de investigacion (Streamlit apps).               *)
(*                                                                         *)
(* The module models                                                       *)
(*   - app_institucional_v3.py : evidence detection, gated scoring,        *)
(*     classification and the Excel export of one Streamlit session        *)
(*     (specification Spec);                                               *)
(*   - evidence_present and its two policies as pure functions of          *)
(*     (criterion name, text, hints) (specification SpecEvidence);         *)
(*   - categorize as a pure function of a percentage                       *)
(*     (specification SpecCategorize);                                     *)
(*   - app_excel_word.py : evidence snippets, ungated scoring and its      *)
(*     Excel export (specification SpecV1);                                *)
(*   - app_institucional_v2.py : scoring gated by keyword_present and the  *)
(*     Word report (specification SpecV2);                                 *)
(*   - remove_section_by_heading as a pure function of a document          *)
(*     (specification SpecSection);                                        *)
(*   - app.py : the sliders and the compliance percentage of one session   *)
(*     with the built-in rubric (specification SpecApp);                   *)
(*   - _split_long_paragraphs and naive_auto_score of app.py as pure       *)
(*     functions (specifications SpecSplit and SpecAutoScore).             *)
(*                                                                         *)
(* Texts, hints and criterion names are TLA+ strings; positions are        *)
(* 0-based as in Python.  Percentages are exact rationals [num, den]       *)
(* with den > 0; values rounded to two decimals are integers counting      *)
(* hundredths.                                                             *)
(***************************************************************************)
EXTENDS Integers, Sequences, FiniteSets, TLC

VARIABLES
    \* ---- one Streamlit session of an app (Spec, SpecV1, SpecV2) ----
    libs,          \* the parsing libraries whose import succeeded
    uploaded,      \* TRUE while the page shows the scored form of an uploaded file
    halted,        \* "" when the last script run reached its end, else what ended it
    text,          \* the text extracted from the uploaded file
    criteria_cfg,  \* the rubric: sequence of [crit, peso, pistas] with distinct crit
    sliders,       \* session state of the slider widgets: crit -> value set by the user
    puntajes,      \* crit -> [asignado, peso, observaciones] of the last script run
    obtenido,      \* sum of asignado of the last script run
    porcentaje,    \* percentage of the last script run (rational)
    total_peso,    \* sum of the weights of the last script run
    resultado,     \* label of the last script run
    xls,           \* outcome of make_excel in the last script run
    docx,          \* outcome of make_word in the last script run
    disabled,      \* the criteria whose slider the last script run rendered disabled
    processed,     \* SpecV1: how many files the session has processed, up to MaxDocs
    \* ---- evidence detection as a pure function (SpecEvidence) ----
    d_crit, d_text, d_pistas,
    d_done,        \* TRUE once evidence_present has been applied
    d_present,     \* its result
    d_keyword,     \* the result of keyword_present of app_institucional_v2.py
    \* ---- categorize as a pure function (SpecCategorize) ----
    c_p,           \* the percentage (rational)
    c_done,        \* TRUE once categorize has been applied
    c_label,       \* its result
    c_shown,       \* round(porcentaje, 2), the value displayed next to the label
    \* ---- remove_section_by_heading as a pure function (SpecSection) ----
    s_paras,       \* the paragraphs of the document, each [style, text]
    s_done,        \* TRUE once remove_section_by_heading has been applied
    s_out,         \* the paragraphs it leaves
    \* ---- one Streamlit session of app.py (SpecApp) ----
    a_uploaded,    \* TRUE while a file is in the uploader
    a_raw_text,    \* the text extracted from it
    a_scores,      \* key -> the value of its slider
    a_final_pct,   \* weighted_total(scores), in hundredths
    a_label,       \* decision(final_pct)
    \* ---- _split_long_paragraphs as a pure function (SpecSplit) ----
    p_text, p_max_len,
    p_done,        \* TRUE once _split_long_paragraphs has been applied
    p_chunks,      \* its result
    \* ---- naive_auto_score as a pure function (SpecAutoScore) ----
    k_keywords,    \* RUBRIC["keywords"]: key -> list of words
    k_key, k_text,
    k_done,        \* TRUE once naive_auto_score has been applied
    k_score        \* its result

sessionVars == <<libs, uploaded, halted, text, criteria_cfg, sliders, puntajes,
                 obtenido, porcentaje, total_peso, resultado, xls, docx, disabled>>
evidenceVars == <<d_crit, d_text, d_pistas, d_done, d_present, d_keyword>>
categorizeVars == <<c_p, c_done, c_label, c_shown>>
sectionVars == <<s_paras, s_done, s_out>>
appSessionVars == <<a_uploaded, a_raw_text, a_scores, a_final_pct, a_label>>
splitVars == <<p_text, p_max_len, p_done, p_chunks>>
autoScoreVars == <<k_keywords, k_key, k_text, k_done, k_score>>
appVars == <<appSessionVars, splitVars, autoScoreVars>>
vars == <<sessionVars, processed, evidenceVars, categorizeVars, sectionVars, appVars>>

(***************************************************************************)
(* Bounds of the model.                                                    *)
(***************************************************************************)
MaxPeso == 3          \* weights of the generated rubrics are 0..MaxPeso
MaxPad == 189         \* longest run of filler characters in a generated text
BelowZeroHundredths == 300 \* categorize inputs: -BelowZeroHundredths/100 ..
MaxHundredths == 100200   \* .. MaxHundredths/100 in steps of 0.01
MaxParas == 3         \* longest generated document, in paragraphs
MaxDocs == 2          \* the count of processed files stops here

(***************************************************************************)
(* Python helpers: min, max, str slicing, str.find, str.lower, in.         *)
(***************************************************************************)
Min2(a, b) == IF a <= b THEN a ELSE b
Max2(a, b) == IF a >= b THEN a ELSE b

\* s[a:b] for 0 <= a and 0 <= b (b may exceed len(s))
Slice(s, a, b) == SubSeq(s, a + 1, Min2(b, Len(s)))

\* the character s[i]
CharAt(s, i) == SubSeq(s, i + 1, i + 1)

Range(f) == {f[i] : i \in DOMAIN f}

UpperChars == <<"A","B","C","D","E","F","G","H","I","J","K","L","M","N","O","P","Q",
                "R","S","T","U","V","W","X","Y","Z","Á","É","Í","Ó","Ú","Ñ">>
LowerChars == <<"a","b","c","d","e","f","g","h","i","j","k","l","m","n","o","p","q",
                "r","s","t","u","v","w","x","y","z","á","é","í","ó","ú","ñ">>

LowerMap == [c \in Range(UpperChars) |->
                LowerChars[CHOOSE i \in DOMAIN UpperChars : UpperChars[i] = c]]

LowerChar(c) == IF c \in DOMAIN LowerMap THEN LowerMap[c] ELSE c

\* s with the characters at the positions of U (1-based) replaced by their lowercase
RECURSIVE LowerAt(_, _)
LowerAt(s, U) ==
    IF U = {} THEN s
    ELSE LET i == CHOOSE x \in U : TRUE
         IN  LowerAt(SubSeq(s, 1, i - 1) \o LowerChar(SubSeq(s, i, i))
                        \o SubSeq(s, i + 1, Len(s)),
                     U \ {i})

\* str.lower(): every cased character is replaced by its lowercase
Lower(s) == LowerAt(s, {i \in 1..Len(s) : SubSeq(s, i, i) \in DOMAIN LowerMap})

\* does s continue with lit at position i
StartsAt(s, i, lit) == i + Len(lit) <= Len(s) /\ SubSeq(s, i + 1, i + Len(lit)) = lit

\* s.find(kw): the lowest index where kw occurs, -1 when it does not
Find(s, kw) ==
    LET at == {i \in 0..(Len(s) - Len(kw)) : StartsAt(s, i, kw)}
    IN  IF at = {} THEN 0 - 1 ELSE CHOOSE i \in at : \A j \in at : i <= j

\* kw in s
Contains(s, kw) == \E i \in 0..(Len(s) - Len(kw)) : StartsAt(s, i, kw)

\* s.startswith(prefix)
StartsWith(s, prefix) == StartsAt(s, 0, prefix)

\* n copies of the filler character
RECURSIVE Pad(_)
Pad(n) ==
    IF n <= 0 THEN ""
    ELSE IF n = 1 THEN "x"
    ELSE Pad(n \div 2) \o Pad(n - (n \div 2))

(***************************************************************************)
(* THRESHOLDS and categorize.                                              *)
(***************************************************************************)
\* the dict THRESHOLDS in its insertion order
THRESHOLDS ==
    << [label |-> "Aprobado",                   lo |-> 60, hi |-> 1000],
       [label |-> "Aprobado con observaciones", lo |-> 50, hi |-> 60],
       [label |-> "No aprobado",                lo |-> 0,  hi |-> 50] >>

Labels == {THRESHOLDS[i].label : i \in DOMAIN THRESHOLDS}

\* a percentage is a rational num/den with den > 0
Pct(n, d) == [num |-> n, den |-> d]
PctLeq(k, p) == k * p.den <= p.num     \* k <= p
PctLt(p, k) == p.num < k * p.den       \* p < k
PctEq(p, k) == p.num = k * p.den       \* p == k

\* InBand with the lower limit of each band excluded
InBandLowerExcluded(th, p) ==
    (th.lo * p.den < p.num /\ PctLt(p, th.hi)) \/ (th.label = "Aprobado" /\ PctEq(p, th.hi))

\* the condition of the if inside the loop of categorize
InBand(th, p) ==
    (PctLeq(th.lo, p) /\ PctLt(p, th.hi)) \/ (th.label = "Aprobado" /\ PctEq(p, th.hi))

RECURSIVE CategorizeFrom(_, _)
CategorizeFrom(p, i) ==
    IF i > Len(THRESHOLDS) THEN "No clasificado"
    ELSE IF InBand(THRESHOLDS[i], p) THEN THRESHOLDS[i].label
    ELSE CategorizeFrom(p, i + 1)

categorize(p) == CategorizeFrom(p, 1)

(***************************************************************************)
(* Evidence detection of app_institucional_v3.py.                          *)
(***************************************************************************)
BUDGET_BEFORE == 120    \* idx-120 in strict_evidence_for_budget
WINDOW_AFTER == 200     \* idx+200 in both policies
GENERAL_BEFORE == 100   \* idx-100 in general_evidence
MIN_CONTEXT == 120      \* len(window) >= 120 in general_evidence

\* The pattern of NUMERIC_RE is the raw string
\*   (\\$|USD|ARS|\\b\\d{1,3}(?:[\\.,]\\d{3})*(?:[\\.,]\\d+)?\\b|\\bpor ciento\\b|%)
\* in which every backslash is doubled: "\\" is a literal backslash, "$" the
\* end-of-string anchor, "b" and "d" ordinary letters, and [\\.,] the class of
\* backslash, dot and comma.  lw is the lowercased window (re.IGNORECASE).
SepChars == {"\\", ".", ","}

\* \\$ : a backslash at the end of the window (or before its final newline)
ReBackslashAtEnd(lw, i) ==
    /\ StartsAt(lw, i, "\\")
    /\ \/ i + 1 = Len(lw)
       \/ (i + 2 = Len(lw) /\ CharAt(lw, i + 1) = "\n")

\* positions reached from j by d{lo,hi}
DRun(lw, j, lo, hi) ==
    {j + k : k \in {n \in lo..hi : j + n <= Len(lw)
                                   /\ \A m \in 0..(n - 1) : CharAt(lw, j + m) = "d"}}

\* positions reached from the set S by (?:[\\.,]\\d{3})*
RECURSIVE ReGroups(_, _)
ReGroups(lw, S) ==
    LET more == {j + 5 : j \in {k \in S : k < Len(lw) /\ CharAt(lw, k) \in SepChars
                                         /\ StartsAt(lw, k + 1, "\\ddd")}}
    IN  IF more \subseteq S THEN S ELSE ReGroups(lw, S \cup more)

\* positions reached from j by (?:[\\.,]\\d+)?
ReOptional(lw, j) ==
    {j} \cup (IF j < Len(lw) /\ CharAt(lw, j) \in SepChars /\ StartsAt(lw, j + 1, "\\")
              THEN DRun(lw, j + 2, 1, Len(lw))
              ELSE {})

\* \\b\\d{1,3}(?:[\\.,]\\d{3})*(?:[\\.,]\\d+)?\\b
ReDigitGroup(lw, i) ==
    /\ StartsAt(lw, i, "\\b\\")
    /\ \E j \in ReGroups(lw, DRun(lw, i + 3, 1, 3)) :
          \E e \in ReOptional(lw, j) : StartsAt(lw, e, "\\b")

\* NUMERIC_RE.search(window)
NUMERIC_RE_search(window) ==
    LET lw == Lower(window)
    IN  \E i \in 0..Len(lw) :
            \/ ReBackslashAtEnd(lw, i)
            \/ StartsAt(lw, i, "usd")
            \/ StartsAt(lw, i, "ars")
            \/ ReDigitGroup(lw, i)
            \/ StartsAt(lw, i, "\\bpor ciento\\b")
            \/ StartsAt(lw, i, "%")

strict_evidence_for_budget(text_low, raw_text, pistas) ==
    \E k \in DOMAIN pistas :
        LET idx == Find(text_low, Lower(pistas[k]))
            a == Max2(0, idx - BUDGET_BEFORE)
            b == Min2(Len(raw_text), idx + WINDOW_AFTER)
        IN  idx # 0 - 1 /\ NUMERIC_RE_search(Slice(raw_text, a, b))

\* general_evidence asking for a window strictly longer than MIN_CONTEXT
general_evidence_strictly_longer(text_low, raw_text, pistas) ==
    LET hits == {kw \in Range(pistas) : Contains(text_low, Lower(kw))}
    IN  \/ Cardinality(hits) >= 2
        \/ \E k \in DOMAIN pistas :
              LET idx == Find(text_low, Lower(pistas[k]))
                  a == Max2(0, idx - GENERAL_BEFORE)
                  b == Min2(Len(raw_text), idx + WINDOW_AFTER)
              IN  idx # 0 - 1 /\ Len(Slice(raw_text, a, b)) > MIN_CONTEXT

\* general_evidence without the length test on the window
general_evidence_any_hit(text_low, raw_text, pistas) ==
    \E k \in DOMAIN pistas : Find(text_low, Lower(pistas[k])) # 0 - 1

general_evidence(text_low, raw_text, pistas) ==
    LET hits == {kw \in Range(pistas) : Contains(text_low, Lower(kw))}
    IN  \/ Cardinality(hits) >= 2
        \/ \E k \in DOMAIN pistas :
              LET idx == Find(text_low, Lower(pistas[k]))
                  a == Max2(0, idx - GENERAL_BEFORE)
                  b == Min2(Len(raw_text), idx + WINDOW_AFTER)
              IN  idx # 0 - 1 /\ Len(Slice(raw_text, a, b)) >= MIN_CONTEXT

\* evidence_present reduced to the keyword test of the previous version
evidence_present_keyword_only(crit, txt, pistas) ==
    \E k \in DOMAIN pistas : Contains(Lower(txt), Lower(pistas[k]))

evidence_present(crit, txt, pistas) ==
    LET low == Lower(txt)
    IN  IF StartsWith(Lower(crit), "presupuesto")
        THEN strict_evidence_for_budget(low, txt, pistas)
        ELSE general_evidence(low, txt, pistas)

(***************************************************************************)
(* Arithmetic of the scoring: sums, round().                               *)
(***************************************************************************)
\* round(n/d) of Python 3 for n >= 0, d > 0: to nearest, ties to even
RoundHalfEven(n, d) ==
    LET q == n \div d
        r == n % d
    IN  IF 2 * r < d THEN q
        ELSE IF 2 * r > d THEN q + 1
        ELSE IF q % 2 = 0 THEN q ELSE q + 1

\* int(round(peso*0.7)); peso*0.7 in binary64 rounds as 7*peso/10 does for
\* every peso < 45
Round07(peso) == RoundHalfEven(7 * peso, 10)

\* round(p, 2) of a non-negative percentage, in hundredths
Round2(p) == RoundHalfEven(100 * p.num, p.den)

RECURSIVE SumPeso(_)
SumPeso(cfg) == IF cfg = <<>> THEN 0 ELSE cfg[1].peso + SumPeso(Tail(cfg))

Names(cfg) == {cfg[i].crit : i \in DOMAIN cfg}

MetaOf(cfg, c) == cfg[CHOOSE i \in DOMAIN cfg : cfg[i].crit = c]

RECURSIVE SumAsignado(_, _)
SumAsignado(cfg, pts) ==
    IF cfg = <<>> THEN 0 ELSE pts[cfg[1].crit].asignado + SumAsignado(Tail(cfg), pts)

(***************************************************************************)
(* Streamlit widgets.                                                      *)
(***************************************************************************)
\* a slider whose upper limit is one too high
SliderRangeOffByOne(lo, hi) == lo..(hi + 1)

\* the values a slider with limits lo..hi lets the user choose
SliderRange(lo, hi) == lo..hi

\* st.slider(label, lo, hi, default, key=key): the value the user set for
\* this key, the default while the user has not touched the widget
slider(sl, key, lo, hi, default) ==
    IF key \in DOMAIN sl THEN sl[key] ELSE default

OBS_SIN_EVIDENCIA == "Sin evidencia textual suficiente en el documento."

(***************************************************************************)
(* score_ui, make_excel of app_institucional_v3.py.                        *)
(***************************************************************************)
\* ScoreVal without the gate: the slider value is stored whatever hay is
ScoreValUngated(hay, sl, crit, peso) == slider(sl, crit, 0, peso, Round07(peso))

\* the value val of one iteration of the loop of score_ui
ScoreVal(hay, sl, crit, peso) ==
    IF ~hay THEN 0 ELSE slider(sl, crit, 0, peso, Round07(peso))

\* Porcentaje without the factor 100
PorcentajeAsFraction(obt, total) == IF total # 0 THEN Pct(obt, total) ELSE Pct(0, 1)

\* (obtenido / total_peso) * 100 if total_peso else 0.0
Porcentaje(obt, total) == IF total # 0 THEN Pct(100 * obt, total) ELSE Pct(0, 1)

score_ui(cfg, txt, sl) ==
    LET total == SumPeso(cfg)
        hay == [c \in Names(cfg) |->
                  evidence_present(c, txt, MetaOf(cfg, c).pistas)]
        pts == [c \in Names(cfg) |->
                  [asignado |-> ScoreVal(hay[c], sl, c, MetaOf(cfg, c).peso),
                   peso |-> MetaOf(cfg, c).peso,
                   observaciones |-> IF ~hay[c] THEN OBS_SIN_EVIDENCIA ELSE ""]]
        obt == SumAsignado(cfg, pts)
    IN  [puntajes |-> pts, obtenido |-> obt,
         porcentaje |-> Porcentaje(obt, total), total_peso |-> total,
         disabled |-> {c \in Names(cfg) : ~hay[c]}]

NoExport == [status |-> "none", rows |-> <<>>, resumen |-> <<>>]

\* "Aporte (%)" of one row, in hundredths
Aporte(asignado, total) ==
    IF total > 0 THEN RoundHalfEven(10000 * asignado, total) ELSE 0

make_excel(cfg, pts, pct, result) ==
    LET total == SumPeso(cfg)
    IN  [status |-> "ok",
         rows |-> [i \in DOMAIN cfg |->
                     [Criterio |-> cfg[i].crit,
                      Peso |-> cfg[i].peso,
                      Puntaje |-> pts[cfg[i].crit].asignado,
                      Aporte |-> Aporte(pts[cfg[i].crit].asignado, total),
                      Observaciones |-> pts[cfg[i].crit].observaciones]],
         resumen |-> <<[Resultado |-> result, PorcentajeTotal |-> Round2(pct)]>>]

(***************************************************************************)
(* Text extraction: parse_docx, parse_pdf and the branch of the script     *)
(* that calls them.  An uploaded file is [name, readable, parts]:          *)
(* readable says whether the parsing library can open its bytes, parts are *)
(* the texts of its paragraphs (docx) or pages (pdf).                      *)
(***************************************************************************)
Libraries == {"pdfplumber", "python-docx"}

\* sep.join(parts)
RECURSIVE Join(_, _)
Join(parts, sep) ==
    IF parts = <<>> THEN ""
    ELSE IF Len(parts) = 1 THEN parts[1]
    ELSE parts[1] \o sep \o Join(Tail(parts), sep)

EndsWith(s, suffix) ==
    Len(s) >= Len(suffix) /\ SubSeq(s, Len(s) - Len(suffix) + 1, Len(s)) = suffix

\* the separator of parse_docx and parse_pdf, written "\\n" in the source:
\* a backslash followed by the letter n
SEP == "\\n"

\* DocxDocument(bio) raises on bytes that are no docx package
parse_docx(f, lb) ==
    IF "python-docx" \notin lb THEN [status |-> "ok", text |-> ""]
    ELSE IF ~f.readable THEN [status |-> "exception", text |-> ""]
    ELSE [status |-> "ok", text |-> Join(f.parts, SEP)]

\* pdfplumber.open raises on bytes that are no PDF
parse_pdf(f, lb) ==
    IF "pdfplumber" \notin lb THEN [status |-> "ok", text |-> ""]
    ELSE IF ~f.readable THEN [status |-> "exception", text |-> ""]
    ELSE [status |-> "ok", text |-> Join(f.parts, SEP)]

\* the if/else of the script between uploaded.read() and the scoring
Extract(f, lb) ==
    IF EndsWith(Lower(f.name), ".pdf")
    THEN IF "pdfplumber" \notin lb
         THEN [status |-> "st.stop", text |-> ""]
         ELSE parse_pdf(f, lb)
    ELSE IF "python-docx" \notin lb
         THEN [status |-> "st.stop", text |-> ""]
         ELSE parse_docx(f, lb)

(***************************************************************************)
(* The Word report: the body paragraphs of the document as [style, text],  *)
(* the table as rows.  The verdict paragraph keeps its number in the       *)
(* field dictamen; the runs with the file name and the date are left out,  *)
(* and the dashes of the fixed texts are written as hyphens.               *)
(***************************************************************************)
HEADING_EXTRACTO == "Extracto de evidencia del documento"

NoDocx ==
    [status |-> "none", dictamen |-> <<>>, table |-> <<>>,
     fortalezas |-> <<>>, ausencias |-> <<>>, paragraphs |-> <<>>]

\* the field crit of every entry of a sequence of rubric entries
CritsOf(sel) == [i \in DOMAIN sel |-> sel[i].crit]

\* int(peso*0.75): peso*0.75 is exact in binary64, int() truncates
Int075(peso) == (3 * peso) \div 4

fortalezas(cfg, pts) ==
    CritsOf(SelectSeq(cfg, LAMBDA m : pts[m.crit].asignado >= Int075(m.peso)))

ausencias(cfg, pts) ==
    CritsOf(SelectSeq(cfg, LAMBDA m : pts[m.crit].asignado = 0))

\* doc.add_paragraph / doc.add_heading(level)
Paragraph(txt) == [style |-> "Normal", text |-> txt]
Heading(txt, level) ==
    [style |-> IF level = 1 THEN "Heading 1" ELSE "Heading 2", text |-> txt]

\* the document make_word has built when it reaches the with statement;
\* sinAusencias is the sentence used when the list ausencias is empty
BuildDocument(cfg, pts, pct, result, extracto, sinAusencias) ==
    LET f == fortalezas(cfg, pts)
        au == ausencias(cfg, pts)
    IN  [status |-> "ok",
         dictamen |-> <<[Resultado |-> result, Cumplimiento |-> Round2(pct)]>>,
         table |-> [i \in DOMAIN cfg |->
                      [Criterio |-> cfg[i].crit,
                       Peso |-> cfg[i].peso,
                       Puntaje |-> pts[cfg[i].crit].asignado,
                       Observaciones |-> pts[cfg[i].crit].observaciones]],
         fortalezas |-> f,
         ausencias |-> au,
         paragraphs |->
            << Paragraph("Universidad Católica de Cuyo - Secretaría de Investigación"),
               Heading("Valoración de Proyecto de Investigación", 1),
               Paragraph("Archivo: " \o "   " \o "Fecha: "),
               Paragraph("Dictamen: " \o result \o " - Cumplimiento: "),
               Heading("Resultados por criterio", 2),
               Paragraph(""),
               Heading("Síntesis", 2),
               Paragraph("Fortalezas: " \o
                         (IF f # <<>> THEN Join(f, ", ")
                          ELSE "No se destacan fortalezas específicas.")),
               Paragraph("Ausencias/Aspectos a mejorar: " \o
                         (IF au # <<>> THEN Join(au, ", ") ELSE sinAusencias)),
               Paragraph(""),
               Heading(HEADING_EXTRACTO, 2),
               Paragraph(Slice(extracto, 0, 2000)) >>]

\* str.strip(): leading and trailing whitespace removed
Whitespace == {" ", "\t", "\n", "\r", "\f"}

RECURSIVE Strip(_)
Strip(s) ==
    IF Len(s) = 0 THEN s
    ELSE IF SubSeq(s, 1, 1) \in Whitespace THEN Strip(SubSeq(s, 2, Len(s)))
    ELSE IF SubSeq(s, Len(s), Len(s)) \in Whitespace THEN Strip(SubSeq(s, 1, Len(s) - 1))
    ELSE s

\* the test of the inner loop: the style name starts with "heading" or "título"
IsHeadingStyle(p) ==
    StartsWith(Lower(p.style), "heading") \/ StartsWith(Lower(p.style), "título")

\* the paragraphs of doc after remove_section_by_heading(doc, heading_text)
remove_section_by_heading(paras, heading_text) ==
    LET matches == {i \in DOMAIN paras : Lower(Strip(paras[i].text)) = Lower(heading_text)}
    IN  IF matches = {} THEN paras
        ELSE LET i == CHOOSE x \in matches : \A y \in matches : x <= y
                 stops == {j \in (i + 1)..Len(paras) : IsHeadingStyle(paras[j])}
                 k == IF stops = {} THEN Len(paras) + 1
                      ELSE CHOOSE x \in stops : \A y \in stops : x <= y
             IN  SubSeq(paras, 1, i - 1) \o SubSeq(paras, k, Len(paras))

\* make_word of app_institucional_v3.py.  The call of line 247 stands at
\* column 0 under the with statement of line 246, which is left without a
\* body: the compiler rejects the statement with an IndentationError, so no
\* document is built, cleaned or saved.
make_word(cfg, pts, pct, result, extracto, lb) ==
    [status |-> "IndentationError", dictamen |-> <<>>, table |-> <<>>,
     fortalezas |-> <<>>, ausencias |-> <<>>, paragraphs |-> <<>>]

(***************************************************************************)
(* app_institucional_v2.py: keyword_present, score_ui, make_word.          *)
(***************************************************************************)
\* keyword_present asking for every hint instead of any
keyword_present_all(text_low, pistas) ==
    \A k \in DOMAIN pistas : Contains(text_low, Lower(pistas[k]))

keyword_present(text_low, pistas) ==
    \E k \in DOMAIN pistas : Contains(text_low, Lower(pistas[k]))

OBS_SIN_EVIDENCIA_V2 == "Sin evidencia textual en el documento."

\* the slider is created only in the else branch, so the widget state of a
\* criterion without keyword is dropped at the end of the run
score_ui_v2(cfg, txt, sl) ==
    LET total == SumPeso(cfg)
        text_low == Lower(txt)
        hay == [c \in Names(cfg) |-> keyword_present(text_low, MetaOf(cfg, c).pistas)]
        pts == [c \in Names(cfg) |->
                  [asignado |-> ScoreVal(hay[c], sl, c, MetaOf(cfg, c).peso),
                   peso |-> MetaOf(cfg, c).peso,
                   observaciones |-> IF ~hay[c] THEN OBS_SIN_EVIDENCIA_V2 ELSE ""]]
        obt == SumAsignado(cfg, pts)
    IN  [puntajes |-> pts, obtenido |-> obt,
         porcentaje |-> Porcentaje(obt, total), total_peso |-> total,
         disabled |-> {c \in Names(cfg) : ~hay[c]}]

make_word_v2(cfg, pts, pct, result, extracto, lb) ==
    IF "python-docx" \notin lb
    THEN [status |-> "empty", dictamen |-> <<>>, table |-> <<>>,
          fortalezas |-> <<>>, ausencias |-> <<>>, paragraphs |-> <<>>]
    ELSE BuildDocument(cfg, pts, pct, result, extracto,
                       "Sin ausencias detectadas por palabras clave.")

(***************************************************************************)
(* app_excel_word.py: compute_auto_hints, score_ui, make_excel.            *)
(***************************************************************************)
\* the character map of str.replace("\n", " ")
RECURSIVE ReplaceNewlines(_)
ReplaceNewlines(s) ==
    IF Len(s) = 0 THEN s
    ELSE IF Len(s) = 1 THEN (IF s = "\n" THEN " " ELSE s)
    ELSE LET h == Len(s) \div 2
         IN  ReplaceNewlines(SubSeq(s, 1, h)) \o ReplaceNewlines(SubSeq(s, h + 1, Len(s)))

\* the list ev of one criterion before it is cut to two entries
RECURSIVE Snippets(_, _, _)
Snippets(low, txt, pistas) ==
    IF pistas = <<>> THEN <<>>
    ELSE LET p == Lower(pistas[1])
             idx == Find(low, p)
             a == Max2(0, idx - BUDGET_BEFORE)
             b == Min2(Len(txt), idx + WINDOW_AFTER)
         IN  (IF Contains(low, p) THEN <<ReplaceNewlines(Slice(txt, a, b))>> ELSE <<>>)
             \o Snippets(low, txt, Tail(pistas))

\* compute_auto_hints keeping three snippets instead of two
compute_auto_hints_keep_three(txt, cfg) ==
    LET low == Lower(txt)
    IN  [c \in Names(cfg) |->
            LET ev == Snippets(low, txt, MetaOf(cfg, c).pistas)
            IN  SubSeq(ev, 1, Min2(3, Len(ev)))]

compute_auto_hints(txt, cfg) ==
    LET low == Lower(txt)
    IN  [c \in Names(cfg) |->
            LET ev == Snippets(low, txt, MetaOf(cfg, c).pistas)
            IN  SubSeq(ev, 1, Min2(2, Len(ev)))]

\* WithEvidencia adding the new snippets to those of the previous document
WithEvidenciaAccumulated(cfg, hints) ==
    [i \in DOMAIN cfg |->
        [crit |-> cfg[i].crit, peso |-> cfg[i].peso, pistas |-> cfg[i].pistas,
         evidencia |-> (IF "evidencia" \in DOMAIN cfg[i] THEN cfg[i].evidencia ELSE <<>>)
                       \o hints[cfg[i].crit]]]

\* for c in criteria_cfg: criteria_cfg[c]["evidencia"] = hints.get(c, [])
WithEvidencia(cfg, hints) ==
    [i \in DOMAIN cfg |->
        [crit |-> cfg[i].crit, peso |-> cfg[i].peso, pistas |-> cfg[i].pistas,
         evidencia |-> hints[cfg[i].crit]]]

score_ui_v1(cfg, sl) ==
    LET total == SumPeso(cfg)
        pts == [c \in Names(cfg) |->
                  [asignado |-> slider(sl, c, 0, MetaOf(cfg, c).peso,
                                       Round07(MetaOf(cfg, c).peso)),
                   peso |-> MetaOf(cfg, c).peso,
                   observaciones |-> ""]]
        obt == SumAsignado(cfg, pts)
    IN  [puntajes |-> pts, obtenido |-> obt,
         porcentaje |-> Porcentaje(obt, total), total_peso |-> total]

\* the division asignado / sum(pesos) of the first row raises when the sum is 0
make_excel_v1(cfg, pts, pct, result) ==
    LET total == SumPeso(cfg)
    IN  IF cfg # <<>> /\ total = 0
        THEN [status |-> "ZeroDivisionError", rows |-> <<>>, resumen |-> <<>>]
        ELSE [status |-> "ok",
              rows |-> [i \in DOMAIN cfg |->
                          [Criterio |-> cfg[i].crit,
                           Peso |-> cfg[i].peso,
                           Puntaje |-> pts[cfg[i].crit].asignado,
                           Aporte |-> RoundHalfEven(10000 * pts[cfg[i].crit].asignado, total),
                           Observaciones |-> pts[cfg[i].crit].observaciones]],
              resumen |-> <<[Resultado |-> result, PorcentajeTotal |-> Round2(pct)]>>]

(***************************************************************************)
(* Inputs.                                                                 *)
(***************************************************************************)
T_FOO == "this document mentions foo in context"
T_BUDGET_PLAIN == "el presupuesto es importante"
T_BUDGET_MONEY == "el presupuesto asciende a $50000 anuales"
T_BUDGET_USD == "el presupuesto asciende a USD 50000 anuales"
T_BOTH == "foo bar: el Presupuesto es de ARS 1.000 (10%)"

T_FOO_LONG == T_FOO \o Pad(MIN_CONTEXT - Len(T_FOO))

SessionTexts == {"", T_FOO, T_FOO_LONG, T_BUDGET_MONEY, T_BUDGET_USD, T_BOTH}

CritA(p) == [crit |-> "A", peso |-> p, pistas |-> <<"foo", "bar">>]
CritP(p) == [crit |-> "Presupuesto", peso |-> p, pistas |-> <<"presupuesto">>]

\* the rubrics of the scenarios: {A: weight 10, hints [foo]} and
\* {Presupuesto: weight 6, hints [presupuesto]}
RubricA10 == <<[crit |-> "A", peso |-> 10, pistas |-> <<"foo">>]>>
RubricP6 == <<[crit |-> "Presupuesto", peso |-> 6, pistas |-> <<"presupuesto">>]>>

\* a rubric whose hint lists hold the empty string
RubricEmptyHints ==
    <<[crit |-> "A", peso |-> 2, pistas |-> <<"">>],
      [crit |-> "Presupuesto", peso |-> 1, pistas |-> <<"", "usd">>]>>

Rubrics ==
    {<<>>, RubricA10, RubricP6, RubricEmptyHints}
    \cup {<<CritA(p)>> : p \in 0..MaxPeso}
    \cup {<<CritP(p)>> : p \in 0..MaxPeso}
    \cup {<<CritA(p), CritP(MaxPeso)>> : p \in 0..MaxPeso}

\* texts with newlines, and one longer than a snippet
T_LINES == "intro\nfoo bar\nbaz qux"
T_WIDE == Pad(MaxPad - 39) \o "foo\n" \o Pad(MaxPad + 61)

SessionTextsV1 == SessionTexts \cup {T_LINES, T_WIDE}

\* a criterion with three hints
RubricThreeHints == <<[crit |-> "A", peso |-> 2, pistas |-> <<"baz", "foo", "bar">>]>>

RubricsV1 ==
    {<<>>, RubricEmptyHints, RubricThreeHints}
    \cup {<<CritA(p)>> : p \in 0..MaxPeso}
    \cup {<<CritP(p)>> : p \in 0..MaxPeso}
    \cup {<<CritA(p), CritP(p)>> : p \in 0..MaxPeso}

\* uploaded files: readable ones with their parts, and ones the library rejects
File(name, parts) == [name |-> name, readable |-> TRUE, parts |-> parts]
Unreadable(name) == [name |-> name, readable |-> FALSE, parts |-> <<>>]

SessionFiles ==
    {File("proyecto.docx", <<t>>) : t \in SessionTexts}
    \cup {File("Proyecto.PDF", <<T_FOO>>), File("proyecto.pdf", <<"foo", "bar">>),
          Unreadable("proyecto.docx"), Unreadable("proyecto.pdf")}

\* the outcomes of the two guarded imports
LibSets == {Libraries, {"pdfplumber"}, {}}

SessionIdle ==
    /\ libs = {} /\ uploaded = FALSE /\ halted = "" /\ text = ""
    /\ criteria_cfg = <<>> /\ sliders = <<>>
    /\ puntajes = <<>> /\ obtenido = 0 /\ porcentaje = Pct(0, 1)
    /\ total_peso = 0 /\ resultado = "" /\ xls = NoExport /\ docx = NoDocx
    /\ disabled = {} /\ processed = 0

EvidenceIdle ==
    /\ d_crit = "" /\ d_text = "" /\ d_pistas = <<>> /\ d_done = FALSE
    /\ d_present = FALSE /\ d_keyword = FALSE

CategorizeIdle ==
    c_p = Pct(0, 1) /\ c_done = FALSE /\ c_label = "" /\ c_shown = 0

SectionIdle ==
    s_paras = <<>> /\ s_done = FALSE /\ s_out = <<>>

AppSessionIdle ==
    /\ a_uploaded = FALSE /\ a_raw_text = "" /\ a_scores = <<>>
    /\ a_final_pct = 0 /\ a_label = ""

SplitIdle ==
    p_text = "" /\ p_max_len = 1 /\ p_done = FALSE /\ p_chunks = <<>>

AutoScoreIdle ==
    k_keywords = <<>> /\ k_key = "" /\ k_text = "" /\ k_done = FALSE /\ k_score = 0

AppIdle == AppSessionIdle /\ SplitIdle /\ AutoScoreIdle

(***************************************************************************)
(* Spec: one session of app_institucional_v3.py.  Every user interaction   *)
(* re-runs the script from the file uploader to the export buttons.        *)
(***************************************************************************)
\* the state of a session before its first upload
Fresh ==
    /\ uploaded = FALSE /\ halted = "" /\ text = "" /\ sliders = <<>>
    /\ puntajes = <<>> /\ obtenido = 0 /\ porcentaje = Pct(0, 1)
    /\ total_peso = 0 /\ resultado = "" /\ xls = NoExport /\ docx = NoDocx
    /\ disabled = {} /\ processed = 0
    /\ EvidenceIdle /\ CategorizeIdle /\ SectionIdle /\ AppIdle

Init ==
    /\ libs \in LibSets
    /\ criteria_cfg \in Rubrics
    /\ Fresh

\* one run of the script on text t with widget state sl
Run(t, sl, export) ==
    \E r \in {score_ui(criteria_cfg, t, sl)} :
      \E res \in {categorize(r.porcentaje)} :
        /\ uploaded' = TRUE
        /\ halted' = ""
        /\ text' = t
        /\ sliders' = sl
        /\ puntajes' = r.puntajes
        /\ obtenido' = r.obtenido
        /\ porcentaje' = r.porcentaje
        /\ total_peso' = r.total_peso
        /\ resultado' = res
        /\ disabled' = r.disabled
        /\ xls' = IF export = "excel"
                  THEN make_excel(criteria_cfg, r.puntajes, r.porcentaje, res)
                  ELSE NoExport
        /\ docx' = IF export = "word"
                   THEN make_word(criteria_cfg, r.puntajes, r.porcentaje, res,
                                  Slice(t, 0, 4000), libs)
                   ELSE NoDocx
        /\ UNCHANGED <<libs, criteria_cfg, processed, evidenceVars, categorizeVars, sectionVars, appVars>>

\* a script run that st.stop() or an uncaught exception ends before the
\* scoring: nothing of the form is rendered, the widget state is dropped
Halt(why) ==
    /\ uploaded' = FALSE
    /\ halted' = why
    /\ text' = "" /\ sliders' = <<>>
    /\ puntajes' = <<>> /\ obtenido' = 0 /\ porcentaje' = Pct(0, 1)
    /\ total_peso' = 0 /\ resultado' = "" /\ xls' = NoExport /\ docx' = NoDocx
    /\ disabled' = {}
    /\ UNCHANGED <<libs, criteria_cfg, processed, evidenceVars, categorizeVars, sectionVars, appVars>>

\* the user uploads the file f
Upload(f) ==
    \E x \in {Extract(f, libs)} :
        IF x.status = "ok" THEN Run(x.text, sliders, "") ELSE Halt(x.status)

\* the user moves the enabled slider of criterion c to v
MoveSlider(c, v) ==
    /\ uploaded
    /\ c \in Names(criteria_cfg) \ disabled
    /\ v \in SliderRange(0, MetaOf(criteria_cfg, c).peso)
    /\ Run(text, (c :> v) @@ sliders, "")

\* the user presses "Exportar Excel"
ExportExcel ==
    /\ uploaded
    /\ Run(text, sliders, "excel")

\* the user presses "Exportar Word"
ExportWord ==
    /\ uploaded
    /\ Run(text, sliders, "word")

Next ==
    \/ \E f \in SessionFiles : Upload(f)
    \/ \E c \in Names(criteria_cfg) :
          \E v \in SliderRange(0, MetaOf(criteria_cfg, c).peso) : MoveSlider(c, v)
    \/ ExportExcel
    \/ ExportWord

Spec == Init /\ [][Next]_vars

(***************************************************************************)
(* SpecEvidence: evidence_present applied to one (criterion, text, hints). *)
(***************************************************************************)
EvCrits == {"Consideraciones éticas", "Presupuesto y sostenibilidad"}

EvHintLists ==
    {<<>>, <<"">>, <<"foo">>, <<"foo", "bar">>, <<"bar", "foo">>, <<"foo", "foo">>,
     <<"foo", "Foo">>, <<"presupuesto">>, <<"costo", "Presupuesto">>,
     <<"ética", "comité de ética">>}

EvCores ==
    {"", "foo", "FOO", "foo bar", "presupuesto", "Presupuesto USD", "presupuesto $50000",
     "costo: 1.500,50", "bar \\b\\d.\\ddd\\b presupuesto", "presupuesto \\"}

\* one phrase that holds two hints of the default rubric
T_COMITE == "comité de ética"

\* a hint twice: a currency code follows the second occurrence and lies inside,
\* across the end of, or beyond the window of the first
TwoOccurrences ==
    {"presupuesto" \o Pad(m) \o "Presupuesto USD" :
        m \in {WINDOW_AFTER - 26, WINDOW_AFTER - 25, MaxPad}}

PadLens ==
    {0, MIN_CONTEXT - 4, MIN_CONTEXT - 3, BUDGET_BEFORE - 1, BUDGET_BEFORE,
     MaxPad - 1, MaxPad}

EvEnds == {<<"", "">>, <<"%", "">>, <<"", "%">>}

EvTexts ==
    {e[1] \o Pad(n) \o core \o Pad(m) \o e[2] :
        e \in EvEnds, n \in PadLens, core \in EvCores, m \in PadLens}
    \cup {T_FOO, T_BUDGET_PLAIN, T_BUDGET_MONEY, T_COMITE}
    \cup TwoOccurrences

InitEvidence ==
    /\ d_crit \in EvCrits
    /\ d_text \in EvTexts
    /\ d_pistas \in EvHintLists
    /\ d_done = FALSE /\ d_present = FALSE /\ d_keyword = FALSE
    /\ SessionIdle /\ CategorizeIdle /\ SectionIdle /\ AppIdle

Detect ==
    /\ ~d_done
    /\ d_done' = TRUE
    /\ d_present' = evidence_present(d_crit, d_text, d_pistas)
    /\ d_keyword' = keyword_present(Lower(d_text), d_pistas)
    /\ UNCHANGED <<d_crit, d_text, d_pistas, sessionVars, processed, categorizeVars, sectionVars, appVars>>

NextEvidence == Detect

SpecEvidence == InitEvidence /\ [][NextEvidence]_vars

(***************************************************************************)
(* SpecCategorize: categorize applied to one percentage.                   *)
(***************************************************************************)
\* sums of weights: small ones, the default rubric's 100, and one above 4000
TotalWeights == (1..(2 * MaxPeso)) \cup {100, 4002}

InitCategorize ==
    /\ c_p \in {Pct(k, 100) : k \in (0 - BelowZeroHundredths)..MaxHundredths}
              \cup UNION {{Porcentaje(o, t) : o \in 0..t} : t \in TotalWeights}
    /\ c_done = FALSE /\ c_label = "" /\ c_shown = 0
    /\ SessionIdle /\ EvidenceIdle /\ SectionIdle /\ AppIdle

Classify ==
    /\ ~c_done
    /\ c_done' = TRUE
    /\ c_label' = categorize(c_p)
    /\ c_shown' = Round2(c_p)
    /\ UNCHANGED <<c_p, sessionVars, processed, evidenceVars, sectionVars, appVars>>

NextCategorize == Classify

SpecCategorize == InitCategorize /\ [][NextCategorize]_vars

(***************************************************************************)
(* SpecSection: remove_section_by_heading applied to one document.         *)
(***************************************************************************)
ParaStyles == {"Normal", "Heading 2", "Título 1"}
ParaTexts == {HEADING_EXTRACTO, "  extracto de evidencia del documento ", "x"}
ParaKinds == {[style |-> st, text |-> tx] : st \in ParaStyles, tx \in ParaTexts}

RECURSIVE Documents(_)
Documents(n) ==
    IF n = 0 THEN {<<>>}
    ELSE LET shorter == Documents(n - 1)
         IN  shorter \cup {Append(d, k) : d \in {x \in shorter : Len(x) = n - 1},
                                          k \in ParaKinds}

\* the document make_word builds for a one-criterion rubric and a short text
BuiltDocument ==
    BuildDocument(RubricA10, [c \in {"A"} |-> [asignado |-> 7, peso |-> 10, observaciones |-> ""]],
                  Pct(70, 1), "Aprobado", T_FOO, "").paragraphs

InitSection ==
    /\ s_paras \in Documents(MaxParas) \cup {BuiltDocument}
    /\ s_done = FALSE /\ s_out = <<>>
    /\ SessionIdle /\ EvidenceIdle /\ CategorizeIdle /\ AppIdle

RemoveSection ==
    /\ ~s_done
    /\ s_done' = TRUE
    /\ s_out' = remove_section_by_heading(s_paras, HEADING_EXTRACTO)
    /\ UNCHANGED <<s_paras, sessionVars, processed, evidenceVars, categorizeVars, appVars>>

NextSection == RemoveSection

SpecSection == InitSection /\ [][NextSection]_vars

(***************************************************************************)
(* SpecV1: one session of app_excel_word.py.                               *)
(***************************************************************************)
RunV1(t, sl, export) ==
    \E cfg \in {WithEvidencia(criteria_cfg, compute_auto_hints(t, criteria_cfg))} :
      \E r \in {score_ui_v1(cfg, sl)} :
        \E res \in {categorize(r.porcentaje)} :
          /\ uploaded' = TRUE
          /\ halted' = ""
          /\ text' = t
          /\ criteria_cfg' = cfg
          /\ sliders' = sl
          /\ puntajes' = r.puntajes
          /\ obtenido' = r.obtenido
          /\ porcentaje' = r.porcentaje
          /\ total_peso' = r.total_peso
          /\ resultado' = res
          /\ disabled' = {}
          /\ xls' = IF export
                    THEN make_excel_v1(cfg, r.puntajes, r.porcentaje, res)
                    ELSE NoExport
          /\ docx' = NoDocx
          /\ UNCHANGED <<libs, evidenceVars, categorizeVars, sectionVars, appVars>>

\* the user uploads a readable file whose extracted text is t
UploadV1(t) ==
    /\ RunV1(t, sliders, FALSE)
    /\ processed' = Min2(processed + 1, MaxDocs)

MoveSliderV1(c, v) ==
    /\ uploaded
    /\ c \in Names(criteria_cfg)
    /\ v \in SliderRange(0, MetaOf(criteria_cfg, c).peso)
    /\ RunV1(text, (c :> v) @@ sliders, FALSE)
    /\ UNCHANGED processed

ExportExcelV1 ==
    /\ uploaded
    /\ RunV1(text, sliders, TRUE)
    /\ UNCHANGED processed

NextV1 ==
    \/ \E t \in SessionTextsV1 : UploadV1(t)
    \/ \E c \in Names(criteria_cfg) :
          \E v \in SliderRange(0, MetaOf(criteria_cfg, c).peso) : MoveSliderV1(c, v)
    \/ ExportExcelV1

InitV1 ==
    /\ libs = Libraries
    /\ criteria_cfg \in RubricsV1
    /\ Fresh

SpecV1 == InitV1 /\ [][NextV1]_vars

(***************************************************************************)
(* SpecV2: one session of app_institucional_v2.py.                         *)
(***************************************************************************)
RunV2(t, sl, export) ==
    \E r \in {score_ui_v2(criteria_cfg, t, sl)} :
      \E res \in {categorize(r.porcentaje)} :
        /\ uploaded' = TRUE
        /\ halted' = ""
        /\ text' = t
        /\ sliders' = [c \in DOMAIN sl \ r.disabled |-> sl[c]]
        /\ puntajes' = r.puntajes
        /\ obtenido' = r.obtenido
        /\ porcentaje' = r.porcentaje
        /\ total_peso' = r.total_peso
        /\ resultado' = res
        /\ disabled' = r.disabled
        /\ xls' = IF export = "excel"
                  THEN make_excel(criteria_cfg, r.puntajes, r.porcentaje, res)
                  ELSE NoExport
        /\ docx' = IF export = "word"
                   THEN make_word_v2(criteria_cfg, r.puntajes, r.porcentaje, res,
                                     Slice(t, 0, 4000), libs)
                   ELSE NoDocx
        /\ UNCHANGED <<libs, criteria_cfg, processed, evidenceVars, categorizeVars, sectionVars, appVars>>

\* the user uploads a readable file whose extracted text is t
UploadV2(t) == RunV2(t, sliders, "")

MoveSliderV2(c, v) ==
    /\ uploaded
    /\ c \in Names(criteria_cfg) \ disabled
    /\ v \in SliderRange(0, MetaOf(criteria_cfg, c).peso)
    /\ RunV2(text, (c :> v) @@ sliders, "")

ExportExcelV2 ==
    /\ uploaded
    /\ RunV2(text, sliders, "excel")

ExportWordV2 ==
    /\ uploaded
    /\ RunV2(text, sliders, "word")

NextV2 ==
    \/ \E t \in SessionTexts : UploadV2(t)
    \/ \E c \in Names(criteria_cfg) :
          \E v \in SliderRange(0, MetaOf(criteria_cfg, c).peso) : MoveSliderV2(c, v)
    \/ ExportExcelV2
    \/ ExportWordV2

InitV2 ==
    /\ libs = Libraries
    /\ criteria_cfg \in Rubrics
    /\ Fresh

SpecV2 == InitV2 /\ [][NextV2]_vars

(***************************************************************************)
(* Properties.                                                             *)
(***************************************************************************)
IsBudget(crit) == StartsWith(Lower(crit), "presupuesto")

\* sum of f[c].field over the criteria in S, one criterion at a time
RECURSIVE SumOver(_, _)
SumOver(S, val) ==
    IF S = {} THEN 0
    ELSE LET c == CHOOSE x \in S : TRUE IN val[c] + SumOver(S \ {c}, val)

PesoOf == [c \in Names(criteria_cfg) |-> MetaOf(criteria_cfg, c).peso]
AsignadoOf == [c \in Names(criteria_cfg) |-> puntajes[c].asignado]

\* C1: in a session of the final variant, every criterion whose evidence is
\* absent for the uploaded text is stored with asignado = 0, whatever value
\* its slider holds; a non-zero asignado belongs to a criterion with evidence.
C1_Gating ==
    uploaded =>
        \A i \in DOMAIN criteria_cfg :
            LET m == criteria_cfg[i]
            IN  /\ ~evidence_present(m.crit, text, m.pistas) => puntajes[m.crit].asignado = 0
                /\ puntajes[m.crit].asignado # 0 => evidence_present(m.crit, text, m.pistas)

\* a criterion without evidence whose slider holds a non-zero value, stored as 0
C1_Witness ==
    /\ uploaded
    /\ \E i \in DOMAIN criteria_cfg :
          LET m == criteria_cfg[i]
          IN  /\ ~evidence_present(m.crit, text, m.pistas)
              /\ m.crit \in DOMAIN sliders
              /\ sliders[m.crit] > 0
              /\ puntajes[m.crit].asignado = 0

\* C2: on [0, 100] categorize returns one of the three labels, never
\* "No clasificado": "Aprobado" from 60, "Aprobado con observaciones" on
\* [50, 60), "No aprobado" on [0, 50); so 60 -> "Aprobado", 59.99 and 50 ->
\* "Aprobado con observaciones", 49.99 -> "No aprobado".
C2_Partition ==
    (c_done /\ 0 <= c_p.num /\ c_p.num <= 100 * c_p.den) =>
        /\ c_label \in Labels
        /\ c_label # "No clasificado"
        /\ c_p.num >= 60 * c_p.den => c_label = "Aprobado"
        /\ (50 * c_p.den <= c_p.num /\ c_p.num < 60 * c_p.den)
               => c_label = "Aprobado con observaciones"
        /\ c_p.num < 50 * c_p.den => c_label = "No aprobado"
        /\ c_p = Pct(6000, 100) => c_label = "Aprobado"
        /\ c_p \in {Pct(5999, 100), Pct(5000, 100)} => c_label = "Aprobado con observaciones"
        /\ c_p = Pct(4999, 100) => c_label = "No aprobado"

\* 59.99 has been classified
C2_Witness ==
    c_done /\ c_p = Pct(5999, 100) /\ c_label = "Aprobado con observaciones"

\* C3: every percentage below 0 or above 100 is classified "No clasificado".
C3_OutOfRange ==
    (c_done /\ (c_p.num < 0 \/ c_p.num > 100 * c_p.den)) => c_label = "No clasificado"

\* C4: with total weight > 0, score_ui returns obtenido = sum of asignado,
\* total_peso = sum of peso and porcentaje = 100 * obtenido / total_peso,
\* which lies in [0, 100].
C4_Percentage ==
    (uploaded /\ SumOver(Names(criteria_cfg), PesoOf) > 0) =>
        /\ \A c \in Names(criteria_cfg) :
              0 <= puntajes[c].asignado /\ puntajes[c].asignado <= puntajes[c].peso
        /\ obtenido = SumOver(Names(criteria_cfg), AsignadoOf)
        /\ total_peso = SumOver(Names(criteria_cfg), PesoOf)
        /\ porcentaje.den > 0
        /\ porcentaje.num * total_peso = 100 * obtenido * porcentaje.den
        /\ 0 <= porcentaje.num /\ porcentaje.num <= 100 * porcentaje.den

\* two criteria, both scored above 0, the total strictly between 0 and the maximum
C4_Witness ==
    /\ uploaded
    /\ Len(criteria_cfg) = 2
    /\ \A c \in Names(criteria_cfg) : puntajes[c].asignado > 0
    /\ obtenido < total_peso
    /\ porcentaje.num > 0

\* C5: with a rubric whose weights sum to 0 nothing divides by zero:
\* porcentaje is 0.0 and an Excel export succeeds with "Aporte (%)" 0 in every row.
C5_DegenerateRubric ==
    (uploaded /\ SumOver(Names(criteria_cfg), PesoOf) = 0) =>
        /\ porcentaje.num = 0
        /\ xls.status \in {"none", "ok"}
        /\ xls.status = "ok" => \A i \in DOMAIN xls.rows : xls.rows[i].Aporte = 0

\* the window of hint h around its first occurrence in txt, budget policy
BudgetWindow(txt, h) ==
    LET idx == Find(Lower(txt), Lower(h))
    IN  Slice(txt, Max2(0, idx - BUDGET_BEFORE), idx + WINDOW_AFTER)

Digits == {"0", "1", "2", "3", "4", "5", "6", "7", "8", "9"}

\* a token of the numeric-or-currency pattern as the documentation describes it
HasNumericToken(w) ==
    LET lw == Lower(w)
    IN  \E i \in 0..(Len(lw) - 1) :
            \/ CharAt(lw, i) \in Digits
            \/ CharAt(lw, i) \in {"$", "%"}
            \/ StartsAt(lw, i, "usd")
            \/ StartsAt(lw, i, "ars")
            \/ StartsAt(lw, i, "por ciento")

\* C6: for a budget criterion evidence is present exactly when some hint
\* occurs and the window around that match (120 before, 200 after) holds a
\* numeric or currency token; "el presupuesto asciende a $50000 anuales" is
\* present and "el presupuesto es importante" is absent for hints [presupuesto].
C6_StrictNumeric ==
    (d_done /\ IsBudget(d_crit)) =>
        /\ d_present =
              (\E k \in DOMAIN d_pistas :
                  /\ Contains(Lower(d_text), Lower(d_pistas[k]))
                  /\ HasNumericToken(BudgetWindow(d_text, d_pistas[k])))
        /\ (d_text = T_BUDGET_MONEY /\ d_pistas = <<"presupuesto">>) => d_present
        /\ (d_text = T_BUDGET_PLAIN /\ d_pistas = <<"presupuesto">>) => ~d_present

ScenarioA == uploaded /\ criteria_cfg = RubricA10 /\ "A" \notin DOMAIN sliders

\* C7: rubric {A: 10, [foo]} and text "this document mentions foo in context":
\* A is present, its default score is 7, the percentage 70.0, the label "Aprobado".
C7_Scenario ==
    (ScenarioA /\ text = T_FOO) =>
        /\ "A" \notin disabled
        /\ puntajes["A"].asignado = 7
        /\ porcentaje.num = 70 * porcentaje.den
        /\ resultado = "Aprobado"

\* C7 as amended: the text of the scenario has 37 characters, less than the 120
\* the context window needs, so A is absent, scored 0, 0.0 %, "No aprobado";
\* the same text followed by 83 more characters gives present, 7, 70.0 %, "Aprobado".
C7_ScenarioAmended ==
    /\ (ScenarioA /\ text = T_FOO) =>
          /\ "A" \in disabled
          /\ puntajes["A"].asignado = 0
          /\ porcentaje.num = 0
          /\ resultado = "No aprobado"
    /\ (ScenarioA /\ text = T_FOO_LONG) =>
          /\ "A" \notin disabled
          /\ puntajes["A"].asignado = 7
          /\ porcentaje.num = 70 * porcentaje.den
          /\ resultado = "Aprobado"

\* the scenario has run on the 37-character text
C7_Witness == ScenarioA /\ text = T_FOO /\ puntajes["A"].peso = 10 /\ obtenido = 0

\* the positions of the lowercased text low where hint h matches
MatchPositions(low, h) == {i \in 0..(Len(low) - Len(h)) : StartsAt(low, i, Lower(h))}

\* the hints of the list that occur in the lowercased text low
OccurringHints(low, pistas) == {h \in Range(pistas) : MatchPositions(low, h) # {}}

\* length of the window 100 before .. 200 after position i of a text of n characters
ContextLength(n, i) ==
    (IF i + WINDOW_AFTER < n THEN i + WINDOW_AFTER ELSE n)
    - (IF i > GENERAL_BEFORE THEN i - GENERAL_BEFORE ELSE 0)

\* some hint occurs and the window around its first match has >= 120 characters
LongContext(low, pistas) ==
    \E h \in Range(pistas) :
        LET M == MatchPositions(low, h)
        IN  \E i \in M : (\A j \in 0..(i - 1) : j \notin M) /\ ContextLength(Len(low), i) >= 120

C9_EmptyText ==
    (uploaded /\ text = "") =>
        /\ disabled = Names(criteria_cfg)
        /\ \A c \in Names(criteria_cfg) : puntajes[c].asignado = 0
        /\ obtenido = 0
        /\ porcentaje.num = 0
        /\ resultado = "No aprobado"

\* the empty text with a rubric holding the empty hint and a moved slider
C9_Witness ==
    /\ uploaded /\ text = "" /\ criteria_cfg = RubricEmptyHints
    /\ \E c \in DOMAIN sliders : sliders[c] > 0
    /\ obtenido = 0

\* C10: every stored entry has 0 <= asignado <= peso, and an entry with
\* evidence whose slider the user has not touched holds round(peso * 0.7),
\* the integer nearest to 7*peso/10 (ties to even), itself in [0, peso].
C10_Range ==
    uploaded =>
        \A c \in Names(criteria_cfg) :
            LET e == puntajes[c]
            IN  /\ 0 <= e.asignado /\ e.asignado <= e.peso
                /\ (c \notin disabled /\ c \notin DOMAIN sliders) =>
                      /\ 10 * e.asignado - 7 * e.peso \in (0 - 5)..5
                      /\ 10 * e.asignado - 7 * e.peso \in {0 - 5, 5} => e.asignado % 2 = 0

\* an untouched slider showing the default and a slider set by the user
C10_Witness ==
    /\ uploaded
    /\ \E c \in Names(criteria_cfg) \ disabled :
          c \notin DOMAIN sliders /\ puntajes[c].peso >= 3 /\ puntajes[c].asignado >= 2
    /\ \E c \in Names(criteria_cfg) \ disabled :
          c \in DOMAIN sliders /\ puntajes[c].asignado = puntajes[c].peso

\* C11: in every Word report the list "Fortalezas" holds exactly the criteria
\* (of positive weight) with asignado / peso >= 0.75, and the list
\* "Ausencias/Aspectos a mejorar" holds exactly the criteria with asignado = 0.
C11_SynthesisLists ==
    docx.status = "ok" =>
        \A c \in Names(criteria_cfg) :
            /\ puntajes[c].peso > 0 =>
                  (c \in Range(docx.fortalezas) <=> 4 * puntajes[c].asignado >= 3 * puntajes[c].peso)
            /\ c \in Range(docx.ausencias) <=> puntajes[c].asignado = 0

\* C20: in every Word report no criterion of positive weight stands in both
\* lists: a criterion with asignado = 0 is not among the strengths.
C20_DisjointLists ==
    docx.status = "ok" =>
        \A c \in Names(criteria_cfg) :
            puntajes[c].peso > 0 =>
                ~(c \in Range(docx.fortalezas) /\ c \in Range(docx.ausencias))

\* C12: a Word export of the final variant saves a document, and the saved
\* document is the built one without the heading "Extracto de evidencia del
\* documento" and without the excerpt paragraph that followed it.
C12_NoExcerpt ==
    docx.status # "none" =>
        /\ docx.status = "ok"
        /\ \A i \in DOMAIN docx.paragraphs :
              /\ docx.paragraphs[i].text # HEADING_EXTRACTO
              /\ text # "" => docx.paragraphs[i].text # Slice(text, 0, 2000)

\* remove_section_by_heading, were it reached: the first paragraph whose
\* stripped text equals the heading in any letter case goes, with every
\* paragraph after it up to the next paragraph of a heading style; the
\* others stay in their order.
SectionContract ==
    s_done =>
        LET hit == {i \in DOMAIN s_paras :
                      Lower(Strip(s_paras[i].text)) = Lower(HEADING_EXTRACTO)}
            first == CHOOSE i \in hit : \A j \in hit : i <= j
            kept(i) == \/ i < first
                       \/ \E j \in (first + 1)..i : IsHeadingStyle(s_paras[j])
            keptIdx == {i \in DOMAIN s_paras : kept(i)}
        IN  IF hit = {} THEN s_out = s_paras
            ELSE /\ Len(s_out) = Cardinality(keptIdx)
                 /\ \A n \in DOMAIN s_out :
                       \E i \in keptIdx :
                          /\ Cardinality({j \in keptIdx : j <= i}) = n
                          /\ s_out[n] = s_paras[i]

\* the document of make_word loses its last two paragraphs, the heading and
\* the excerpt
SectionOfBuiltDocument ==
    (s_done /\ s_paras = BuiltDocument) =>
        /\ s_out = SubSeq(s_paras, 1, Len(s_paras) - 2)
        /\ \A i \in DOMAIN s_out : s_out[i].text \notin {HEADING_EXTRACTO, T_FOO}

\* the lowest element of a non-empty set of integers
Lowest(S) == CHOOSE i \in S : \A j \in S : i <= j

\* the n-th smallest element of the set S of integers
Nth(S, n) == CHOOSE i \in S : Cardinality({j \in S : j <= i}) = n

\* snippet is the window 120 before .. 200 after the first match of hint h in
\* txt, each newline of the window shown as a blank
IsSnippetOf(snippet, txt, h) ==
    LET idx == Lowest(MatchPositions(Lower(txt), h))
        a == IF idx > 120 THEN idx - 120 ELSE 0
        b == IF idx + 200 < Len(txt) THEN idx + 200 ELSE Len(txt)
    IN  /\ Len(snippet) = b - a
        /\ \A j \in 0..(b - a - 1) :
              CharAt(snippet, j) = IF CharAt(txt, a + j) = "\n" THEN " " ELSE CharAt(txt, a + j)

\* C13: after a script run of app_excel_word.py every criterion carries at
\* most two snippets: the windows (120 before .. 200 after the first match)
\* of the first two hints, in hint order, that occur case-insensitively in
\* the text; a snippet has at most 320 characters and no newline; a
\* criterion none of whose hints occurs carries the empty list.
C13_Snippets ==
    uploaded =>
        \A i \in DOMAIN criteria_cfg :
            LET m == criteria_cfg[i]
                ev == m.evidencia
                occ == {k \in DOMAIN m.pistas : MatchPositions(Lower(text), m.pistas[k]) # {}}
            IN  /\ Len(ev) <= 2
                /\ Len(ev) = (IF Cardinality(occ) < 2 THEN Cardinality(occ) ELSE 2)
                /\ occ = {} => ev = <<>>
                /\ \A n \in DOMAIN ev :
                      /\ IsSnippetOf(ev[n], text, m.pistas[Nth(occ, n)])
                      /\ Len(ev[n]) <= 320
                      /\ \A j \in 0..(Len(ev[n]) - 1) : CharAt(ev[n], j) # "\n"

\* three hints occur in a text with newlines, two snippets are kept, and the
\* first hint of the list is the later one in the text
C13_Witness ==
    /\ uploaded /\ text = T_LINES /\ criteria_cfg # <<>>
    /\ Len(criteria_cfg[1].pistas) = 3
    /\ \A k \in DOMAIN criteria_cfg[1].pistas :
          MatchPositions(Lower(text), criteria_cfg[1].pistas[k]) # {}
    /\ Len(criteria_cfg[1].evidencia) = 2
    /\ criteria_cfg[1].evidencia[1] = "intro foo bar baz qux"

\* C14: when the extraction of an uploaded file fails the script run still
\* ends with the scored form: the extracted text is the empty string, every
\* criterion is assigned 0 and carries the observation about missing evidence.
C14_ExtractionFailure ==
    halted # "" =>
        /\ uploaded
        /\ text = ""
        /\ \A c \in Names(criteria_cfg) :
              /\ puntajes[c].asignado = 0
              /\ puntajes[c].observaciones = OBS_SIN_EVIDENCIA

\* the rubric without the snippets the script attaches to it
Bare(cfg) ==
    [i \in DOMAIN cfg |-> [crit |-> cfg[i].crit, peso |-> cfg[i].peso, pistas |-> cfg[i].pistas]]

\* what a fresh session with rubric cfg holds after processing txt alone
ProcessedAlone(cfg, txt) == compute_auto_hints(txt, Bare(cfg))

\* C15: whatever files a session has processed before, the snippets of every
\* criterion are those of the current text processed alone, a re-run on the
\* same text leaves them as they are, and no run changes a weight or a hint
\* of the rubric.
C15_NoCrossDocument ==
    /\ [](uploaded =>
             \A i \in DOMAIN criteria_cfg :
                criteria_cfg[i].evidencia = ProcessedAlone(criteria_cfg, text)[criteria_cfg[i].crit])
    /\ [][Bare(criteria_cfg)' = Bare(criteria_cfg)]_vars
    /\ [][(uploaded /\ text' = text) => criteria_cfg' = criteria_cfg]_vars

\* a second file without any hint, processed after a first one
C15_Witness ==
    /\ uploaded /\ processed = MaxDocs /\ text = T_BUDGET_USD
    /\ \E i \in DOMAIN criteria_cfg :
          /\ criteria_cfg[i].pistas = <<"foo", "bar">>
          /\ criteria_cfg[i].evidencia = <<>>

\* C16: whenever evidence_present of the final variant is true, keyword_present
\* of v2 is true for the same text and hints; so a criterion v2 forces to 0 is
\* forced to 0 by the final variant as well, and the criteria open to scoring
\* in the final variant are among those open in v2.
C16_Tightening ==
    d_done =>
        /\ d_present => d_keyword
        /\ ~d_keyword =>
              \A p \in 0..MaxPeso : \A v \in SliderRange(0, p) :
                 /\ ScoreVal(d_keyword, (d_crit :> v), d_crit, p) = 0
                 /\ ScoreVal(d_present, (d_crit :> v), d_crit, p) = 0

\* evidence of both variants for a budget criterion, and a hint that occurs
C16_Witness ==
    d_done /\ d_present /\ d_keyword /\ IsBudget(d_crit) /\ Len(d_pistas) = 2

\* C17: for a budget criterion strict_evidence_for_budget is true exactly when
\* some occurrence of some hint, the first or a later one, has a match of the
\* numeric/currency pattern in the window 120 before .. 200 after it.
C17_AnyOccurrence ==
    (d_done /\ IsBudget(d_crit)) =>
        d_present =
            (\E h \in Range(d_pistas) :
                \E i \in MatchPositions(Lower(d_text), h) :
                    NUMERIC_RE_search(Slice(d_text, Max2(0, i - 120),
                                            Min2(Len(d_text), i + 200))))

\* every match of every hint lies inside one single occurrence of one hint
SingleOccurrence(low, pistas) ==
    LET M == UNION {{<<i, i + Len(h)>> : i \in MatchPositions(low, h)} : h \in Range(pistas)}
    IN  /\ M # {}
        /\ \E m \in M : \A x \in M : m[1] <= x[1] /\ x[2] <= m[2]

\* C18: for a non-budget criterion, a text in which one word or phrase of the
\* hint list occurs once does not count as two distinct hints, even when
\* another hint is a part of that phrase or differs from it in letter case:
\* such a text has evidence only through the long-context condition (b).
C18_DistinctHints ==
    (d_done /\ ~IsBudget(d_crit) /\ SingleOccurrence(Lower(d_text), d_pistas)) =>
        (d_present => LongContext(Lower(d_text), d_pistas))

\* C19: the label reported for a percentage in [0, 100] is the
\* classification of that percentage rounded to two decimals, the value
\* shown and exported with it.
C19_LabelOfShown ==
    (c_done /\ 0 <= c_p.num /\ c_p.num <= 100 * c_p.den) =>
        c_label = categorize(Pct(c_shown, 100))

(***************************************************************************)
(* app.py: the built-in rubric of load_rubric, weighted_total and          *)
(* decision.  A score v contributes (v / MAX_SCALE) * w; with MAX_SCALE 4  *)
(* every term and every partial sum is a multiple of 0.25, which binary64  *)
(* holds exactly, so that total is the exact sum and round(total, 2)       *)
(* leaves it unchanged.                                                    *)
(***************************************************************************)
MAX_SCALE == 4

\* the dict "weights" of the default rubric, in insertion order
DEFAULT_WEIGHTS ==
    << [key |-> "identificacion",         w |-> 5],
       [key |-> "equipo",                 w |-> 8],
       [key |-> "justificacion",          w |-> 12],
       [key |-> "objetivos",              w |-> 12],
       [key |-> "marco_teorico",          w |-> 10],
       [key |-> "metodologia",            w |-> 15],
       [key |-> "plan_actividades",       w |-> 10],
       [key |-> "cronograma",             w |-> 6],
       [key |-> "presupuesto",            w |-> 8],
       [key |-> "resultados_esperados",   w |-> 8],
       [key |-> "difusion_transferencia", w |-> 4],
       [key |-> "viabilidad_etica",       w |-> 6],
       [key |-> "calidad_formal",         w |-> 6] >>

\* the dict "keywords" of the default rubric: no key at all
DEFAULT_KEYWORDS == <<>>

\* the keys of CRITERIA, built from RUBRIC["weights"]
CRITERIA == {DEFAULT_WEIGHTS[i].key : i \in DOMAIN DEFAULT_WEIGHTS}

\* the sum of v * w over the items of scores from the i-th on; scores holds
\* the keys of CRITERIA in the order of the weights
RECURSIVE WeightedSum(_, _)
WeightedSum(scores, i) ==
    IF i > Len(DEFAULT_WEIGHTS) THEN 0
    ELSE scores[DEFAULT_WEIGHTS[i].key] * DEFAULT_WEIGHTS[i].w + WeightedSum(scores, i + 1)

\* weighted_total(scores), in hundredths
weighted_total(scores) ==
    RoundHalfEven(100 * WeightedSum(scores, 1), MAX_SCALE)

\* decision(final_pct) with the thresholds of the default rubric
decision(final_pct) ==
    IF final_pct >= 60 * 100 THEN "APROBADO"
    ELSE IF final_pct >= 50 * 100 THEN "APROBADO CON OBSERVACIONES"
    ELSE "NO APROBADO"

\* naive_auto_score with the limits of the bands on the lower side
naive_auto_score_inclusive(keywords, txt, key) ==
    LET words == IF key \in DOMAIN keywords THEN keywords[key] ELSE <<>>
        lower == Lower(txt)
        hits == Cardinality({i \in DOMAIN words :
                                words[i] # "" /\ Contains(lower, Lower(words[i]))})
        n == Max2(Len(words), 1)
    IN  IF words = <<>> THEN 0
        ELSE IF hits = 0 THEN 0
        ELSE IF 4 * hits <= n THEN 1
        ELSE IF 2 * hits <= n THEN 2
        ELSE IF 4 * hits <= 3 * n THEN 3
        ELSE 4

\* naive_auto_score(text, key) for the dict keywords of the rubric; the ratio
\* hits / len(words) is compared as a fraction (0.25, 0.5 and 0.75 are exact
\* in binary64 and the division is correctly rounded)
naive_auto_score(keywords, txt, key) ==
    LET words == IF key \in DOMAIN keywords THEN keywords[key] ELSE <<>>
        lower == Lower(txt)
        hits == Cardinality({i \in DOMAIN words :
                                words[i] # "" /\ Contains(lower, Lower(words[i]))})
        n == Max2(Len(words), 1)
    IN  IF words = <<>> THEN 0
        ELSE IF hits = 0 THEN 0
        ELSE IF 4 * hits < n THEN 1
        ELSE IF 2 * hits < n THEN 2
        ELSE IF 4 * hits < 3 * n THEN 3
        ELSE 4

(***************************************************************************)
(* SpecApp: one session of app.py with the built-in rubric.  The sliders   *)
(* have no key: they keep their value while they are rendered with the     *)
(* same label and default, and lose it when the file is removed.  The      *)
(* export buttons change nothing of this state and are left out.           *)
(***************************************************************************)
MaxFine == 1          \* the first MaxFine sliders take every value of their
                      \* range, the others the two ends of it

AppTexts == {"", T_FOO}

\* auto_scores of the script for the text t
auto_scores(t) == [k \in CRITERIA |-> naive_auto_score(DEFAULT_KEYWORDS, t, k)]

\* the values the model gives the slider of the i-th criterion
SliderValues(i) == IF i <= MaxFine THEN 0..MAX_SCALE ELSE {0, MAX_SCALE}

\* one run of the script with a file in the uploader
RunApp(t, sc) ==
    /\ a_uploaded' = TRUE
    /\ a_raw_text' = t
    /\ a_scores' = sc
    /\ \E final_pct \in {weighted_total(sc)} :
          a_final_pct' = final_pct /\ a_label' = decision(final_pct)
    /\ UNCHANGED <<sessionVars, processed, evidenceVars, categorizeVars, sectionVars,
                   splitVars, autoScoreVars>>

UploadApp(t) == RunApp(t, IF a_uploaded THEN a_scores ELSE auto_scores(t))

MoveSliderApp(k, v) ==
    /\ a_uploaded
    /\ v # a_scores[k]
    /\ RunApp(a_raw_text, [a_scores EXCEPT ![k] = v])

\* the else branch of the script: "Esperando archivo..."
RemoveFileApp ==
    /\ a_uploaded
    /\ a_uploaded' = FALSE /\ a_raw_text' = "" /\ a_scores' = <<>>
    /\ a_final_pct' = 0 /\ a_label' = ""
    /\ UNCHANGED <<sessionVars, processed, evidenceVars, categorizeVars, sectionVars,
                   splitVars, autoScoreVars>>

NextApp ==
    \/ \E t \in AppTexts : UploadApp(t)
    \/ \E i \in DOMAIN DEFAULT_WEIGHTS : \E v \in SliderValues(i) :
          MoveSliderApp(DEFAULT_WEIGHTS[i].key, v)
    \/ RemoveFileApp

InitApp ==
    /\ AppSessionIdle /\ SplitIdle /\ AutoScoreIdle
    /\ SessionIdle /\ EvidenceIdle /\ CategorizeIdle /\ SectionIdle

SpecApp == InitApp /\ [][NextApp]_vars

\* C21: in a session of app.py with the built-in rubric, the compliance
\* percentage shown for the scores of the sliders lies in [0, 100]; it is
\* 100 when every criterion has the score MAX_SCALE and 0 when every
\* criterion has the score 0.
C21_Compliance ==
    a_uploaded =>
        /\ 0 <= a_final_pct /\ a_final_pct <= 100 * 100
        /\ (\A k \in CRITERIA : a_scores[k] = MAX_SCALE) => a_final_pct = 100 * 100
        /\ (\A k \in CRITERIA : a_scores[k] = 0) => a_final_pct = 0

(***************************************************************************)
(* app.py: _split_long_paragraphs.                                         *)
(***************************************************************************)
\* int(max_len*0.6); max_len*0.6 in binary64 truncates as 6*max_len/10 does
\* for every max_len < 5000
Int06(max_len) == (6 * max_len) \div 10

\* text.rfind(" ", i, j): the highest index in [i, j) that holds a space, or -1
RFindSpace(txt, i, j) ==
    LET at == {k \in i..(j - 1) : CharAt(txt, k) = " "}
    IN  IF at = {} THEN 0 - 1 ELSE CHOOSE k \in at : \A x \in at : x <= k

\* the cut of one iteration, taking one character more than max_len
Cut_one_longer(txt, max_len, i) ==
    LET j == Min2(i + max_len + 1, Len(txt))
        k == RFindSpace(txt, i, j)
    IN  IF k = 0 - 1 \/ k <= i + Int06(max_len) THEN j ELSE k

\* the value of k at the end of the iteration that starts at i
Cut(txt, max_len, i) ==
    LET j == Min2(i + max_len, Len(txt))
        k == RFindSpace(txt, i, j)
    IN  IF k = 0 - 1 \/ k <= i + Int06(max_len) THEN j ELSE k

\* the while loop from position i on, with the chunks collected so far
RECURSIVE SplitFrom(_, _, _, _)
SplitFrom(txt, max_len, i, chunks) ==
    IF i >= Len(txt) THEN chunks
    ELSE LET k == Cut(txt, max_len, i)
             chunk == Strip(Slice(txt, i, k))
         IN  SplitFrom(txt, max_len, k,
                       IF chunk # "" THEN Append(chunks, chunk) ELSE chunks)

\* _split_long_paragraphs(text, max_len)
split_long_paragraphs(txt, max_len) ==
    LET stripped == Strip(txt)
    IN  IF stripped = "" THEN <<>> ELSE SplitFrom(stripped, max_len, 0, <<>>)

(***************************************************************************)
(* SpecSplit: _split_long_paragraphs applied to one text.                  *)
(***************************************************************************)
MaxSplitText == 5     \* longest generated text, in characters
MaxSplitLen == 6      \* largest generated max_len
DEFAULT_MAX_LEN == 2000

SplitAlphabet == {"a", "b", " "}

RECURSIVE SplitTexts(_)
SplitTexts(n) ==
    IF n = 0 THEN {""}
    ELSE LET shorter == SplitTexts(n - 1)
         IN  shorter \cup {t \o c : t \in {x \in shorter : Len(x) = n - 1},
                                    c \in SplitAlphabet}

\* texts with other whitespace, with runs of spaces, and texts longer than the
\* default max_len
T_SPLIT_LINES == " \tuno dos\n tres  cuatro \n"
T_SPLIT_LONG == Pad(1300) \o " " \o Pad(900) \o "  " \o Pad(100)
T_SPLIT_WORD == Pad(DEFAULT_MAX_LEN + 1) \o " fin"

InitSplit ==
    /\ \/ /\ p_text \in SplitTexts(MaxSplitText) \cup {T_SPLIT_LINES, T_BOTH}
          /\ p_max_len \in 1..MaxSplitLen
       \/ /\ p_text \in {T_SPLIT_LINES, T_SPLIT_LONG, T_SPLIT_WORD}
          /\ p_max_len = DEFAULT_MAX_LEN
    /\ p_done = FALSE /\ p_chunks = <<>>
    /\ AppSessionIdle /\ AutoScoreIdle
    /\ SessionIdle /\ EvidenceIdle /\ CategorizeIdle /\ SectionIdle

Split ==
    /\ ~p_done
    /\ p_done' = TRUE
    /\ p_chunks' = split_long_paragraphs(p_text, p_max_len)
    /\ UNCHANGED <<p_text, p_max_len, sessionVars, processed, evidenceVars,
                   categorizeVars, sectionVars, appSessionVars, autoScoreVars>>

NextSplit == Split

SpecSplit == InitSplit /\ [][NextSplit]_vars

\* s without its whitespace characters
RECURSIVE NonWhitespace(_)
NonWhitespace(s) ==
    IF Len(s) = 0 THEN ""
    ELSE IF Len(s) = 1 THEN (IF s \in Whitespace THEN "" ELSE s)
    ELSE NonWhitespace(SubSeq(s, 1, Len(s) \div 2))
            \o NonWhitespace(SubSeq(s, (Len(s) \div 2) + 1, Len(s)))

\* C22: for every text and every max_len >= 1 the loop of
\* _split_long_paragraphs advances in every iteration (it terminates); the
\* chunks it returns are non-empty, none is longer than max_len, and their
\* concatenation holds the non-whitespace characters of the text, each once
\* and in the original order; a text that is empty or all whitespace gives
\* the empty list.
C22_Split ==
    p_done =>
        /\ \A i \in 0..(Len(Strip(p_text)) - 1) :
              /\ i < Cut(Strip(p_text), p_max_len, i)
              /\ Cut(Strip(p_text), p_max_len, i) <= Len(Strip(p_text))
        /\ \A n \in DOMAIN p_chunks :
              p_chunks[n] # "" /\ Len(p_chunks[n]) <= p_max_len
        /\ NonWhitespace(Join(p_chunks, "")) = NonWhitespace(p_text)
        /\ (NonWhitespace(p_text) = "") => p_chunks = <<>>

\* a text cut at a space: two chunks, the first shorter than max_len, and the
\* whitespace between them dropped
C22_Witness ==
    /\ p_done
    /\ Len(p_chunks) >= 2
    /\ Len(p_chunks[1]) < p_max_len
    /\ Len(Join(p_chunks, "")) < Len(Strip(p_text))
    /\ \E n \in DOMAIN p_chunks : Len(p_chunks[n]) = p_max_len

(***************************************************************************)
(* SpecAutoScore: naive_auto_score applied to one rubric, text and key.    *)
(***************************************************************************)
MaxWords == 5         \* longest generated list of keywords

\* the keywords of the generated rubrics; a YAML list may hold a blank entry
AutoVocabulary == {"foo", "Bar", "qux", ""}

RECURSIVE WordLists(_)
WordLists(n) ==
    IF n = 0 THEN {<<>>}
    ELSE LET shorter == WordLists(n - 1)
         IN  shorter \cup {Append(ws, w) : ws \in {x \in shorter : Len(x) = n - 1},
                                           w \in AutoVocabulary}

AutoTexts == {"", "foo", "FOO y bar", "el Qux, el foo y el BAR"}

AutoKeys == {"objetivos", "equipo"}

InitAutoScore ==
    /\ k_keywords \in {DEFAULT_KEYWORDS}
                      \cup {[k \in {"objetivos"} |-> ws] : ws \in WordLists(MaxWords)}
    /\ k_key \in AutoKeys
    /\ k_text \in AutoTexts
    /\ k_done = FALSE /\ k_score = 0
    /\ AppSessionIdle /\ SplitIdle
    /\ SessionIdle /\ EvidenceIdle /\ CategorizeIdle /\ SectionIdle

Score ==
    /\ ~k_done
    /\ k_done' = TRUE
    /\ k_score' = naive_auto_score(k_keywords, k_text, k_key)
    /\ UNCHANGED <<k_keywords, k_key, k_text, sessionVars, processed, evidenceVars,
                   categorizeVars, sectionVars, appSessionVars, splitVars>>

NextAutoScore == Score

SpecAutoScore == InitAutoScore /\ [][NextAutoScore]_vars

\* the keywords configured for the key
Configured(keywords, key) == IF key \in DOMAIN keywords THEN keywords[key] ELSE <<>>

\* the entries of the list words that occur in txt, letter case ignored
Occurring(words, txt) == {i \in DOMAIN words : Contains(Lower(txt), Lower(words[i]))}

\* the score of the fraction h / n
Band(h, n) ==
    IF n = 0 \/ h = 0 THEN 0
    ELSE IF 4 * h < n THEN 1
    ELSE IF 2 * h < n THEN 2
    ELSE IF 4 * h < 3 * n THEN 3
    ELSE 4

\* C23: naive_auto_score returns an integer in 0..4 given by the fraction r
\* of the configured keywords of the criterion that occur in the text, letter
\* case ignored: 0 when no keyword is configured or r = 0, 1 when
\* 0 < r < 0.25, 2 when 0.25 <= r < 0.5, 3 when 0.5 <= r < 0.75, 4 when
\* r >= 0.75; it does not decrease when more of the keywords occur, and with
\* the default rubric it is 0.
C23_AutoScore ==
    k_done =>
        LET words == Configured(k_keywords, k_key)
        IN  /\ k_score \in 0..4
            /\ k_score = Band(Cardinality(Occurring(words, k_text)), Len(words))
            /\ \A t \in AutoTexts :
                  Occurring(words, k_text) \subseteq Occurring(words, t)
                      => k_score <= naive_auto_score(k_keywords, t, k_key)
            /\ (k_keywords = DEFAULT_KEYWORDS) => k_score = 0

\* the entries of the list words that are not blank and occur in txt
OccurringWords(words, txt) == {i \in Occurring(words, txt) : words[i] # ""}

\* C23 as amended: r is the number of entries of the keyword list that are
\* not blank and occur in the text, letter case ignored, divided by the
\* number of all its entries; a blank entry counts as configured and never as
\* occurring.  The bands, the monotonicity and the default rubric are as
\* stated.
C23_AutoScoreAmended ==
    k_done =>
        LET words == Configured(k_keywords, k_key)
        IN  /\ k_score \in 0..4
            /\ k_score = Band(Cardinality(OccurringWords(words, k_text)), Len(words))
            /\ \A t \in AutoTexts :
                  OccurringWords(words, k_text) \subseteq OccurringWords(words, t)
                      => k_score <= naive_auto_score(k_keywords, t, k_key)
            /\ (k_keywords = DEFAULT_KEYWORDS) => k_score = 0

\* a list with a blank entry, one keyword found only through the folding of
\* letter case and one not found, scored in the band [0.25, 0.5)
C23_Witness ==
    /\ k_done
    /\ k_score = 2
    /\ LET words == Configured(k_keywords, k_key)
       IN  /\ \E i \in DOMAIN words : words[i] = ""
           /\ \E i \in OccurringWords(words, k_text) : ~Contains(k_text, words[i])
           /\ \E i \in DOMAIN words : i \notin Occurring(words, k_text)

====
